---- MODULE Spec2Model ----
(***************************************************************************)
(* Model of src/P2/src/mcts_vanilla.py: vanilla Monte Carlo Tree Search.   *)
(*                                                                         *)
(* The module's functions (traverse_nodes, expand_leaf, rollout,           *)
(* backpropagate, ucb, get_best_action, is_win, think) are modelled as the *)
(* Python interpreter runs them, raised exceptions included.  A result is  *)
(* a record whose field exc is "none" for a normal return and the name of  *)
(* the exception otherwise.                                                *)
(*                                                                         *)
(* Two kinds of run are modelled (variable mode):                          *)
(*   "think": one call of think(board, current_state);                     *)
(*   "unit" : a caller that builds a tree of MCTSNode objects and calls    *)
(*            the module-level functions on it, one call at a time.        *)
(***************************************************************************)
EXTENDS Integers, Sequences, FiniteSets, TLC

(***************************************************************************)
(* Bounds of the model.                                                    *)
(***************************************************************************)
Target == 2          \* the counting game ends when the total reaches Target
MaxNodes == 3        \* MCTSNode objects on the heap
MaxBackprops == 2    \* backpropagate calls of a unit run
MaxNumNodes == 2     \* values of num_nodes tried besides the default

(***************************************************************************)
(* Module constants.                                                       *)
(***************************************************************************)
num_nodes == 1000
exploration_factor == 2

None == 0            \* Python's None, for node references and actions
NoState == [total |-> 0 - 1, player |-> 0]

(***************************************************************************)
(* Board (p2_t3.Board, not part of src/): the interface the engine uses,   *)
(* instantiated with a counting game.  Two players alternately add 1 or 2  *)
(* to a running total that may not exceed Target; the game is ended when   *)
(* the total is Target, and the player who made the last move has won.     *)
(***************************************************************************)
Players == {1, 2}
Actions == {1, 2}
States == [total : 0..Target, player : Players]

other(p) == 3 - p

current_player(state) == state.player

legal_actions(state) ==
  IF state.total + 2 <= Target THEN <<1, 2>>
  ELSE IF state.total + 1 <= Target THEN <<1>>
  ELSE <<>>

next_state(state, action) ==
  [total |-> state.total + action, player |-> other(state.player)]

is_ended(state) == state.total >= Target

\* points_values(state)[identity]; 0 stands for the None of a non-terminal state
points_values(state, identity) ==
  IF ~is_ended(state) THEN 0
  ELSE IF identity = other(state.player) THEN 1 ELSE 0 - 1

points_values_is_None(state) == ~is_ended(state)

(***************************************************************************)
(* MCTSNode (mcts_node.MCTSNode, not part of src/).                        *)
(* child_nodes maps an action to a node id, None when the key is absent.   *)
(***************************************************************************)
MCTSNode(parent, parent_action, action_list) ==
  [parent |-> parent, parent_action |-> parent_action,
   child_nodes |-> [a \in Actions |-> None],
   untried_actions |-> action_list, wins |-> 0, visits |-> 0]

SeqToSet(s) == {s[i] : i \in 1..Len(s)}
Remove(s, x) == SelectSeq(s, LAMBDA y : y # x)
HasKey(d, a) == a \in DOMAIN d /\ d[a] # None
Keys(d) == {a \in DOMAIN d : d[a] # None}

VARIABLES
  mode,           \* "think" or "unit"
  current_state,  \* the state handed to think, or the state of the caller's root
  numNodes,       \* value of the module global num_nodes during the run
  nodes,          \* the heap: sequence of MCTSNode records, node id = index
  call,           \* the last call made and its result
  backprops,      \* backpropagate calls made by the caller so far
  rpc, rstate,    \* rollout in progress: position and local variable state
  thinkPc, thinkIter, bot_identity,
  iteration       \* think: what the last pass of the main loop did

vars == <<mode, current_state, numNodes, nodes, call, backprops, rpc, rstate,
          thinkPc, thinkIter, bot_identity, iteration>>

Root == 1

\* The state associated with a node: current_state advanced by the
\* parent_action of every node on the path from the root.
RECURSIVE StateOf(_, _)
StateOf(ns, n) ==
  IF ns[n].parent = None THEN current_state
  ELSE next_state(StateOf(ns, ns[n].parent), ns[n].parent_action)

RECURSIVE Depth(_, _)
Depth(ns, n) == IF ns[n].parent = None THEN 0 ELSE 1 + Depth(ns, ns[n].parent)

RECURSIVE PathToRoot(_, _)
PathToRoot(ns, n) == IF n = None THEN {} ELSE {n} \cup PathToRoot(ns, ns[n].parent)

\* A call and its result.  ret is "raise" (exc names the exception), "pair"
\* (a (node, state) tuple in rnode, rstate), "False", "None", "state" (rstate),
\* "value" (rval: an action, a bool as 1/0, or a score in thousandths) or
\* "pending" while the call is running.
NoCall == [fn |-> "none", node |-> None, state |-> NoState, flag |-> FALSE,
           ret |-> "None", exc |-> "none",
           rnode |-> None, rstate |-> NoState, rval |-> 0]

Raise(e) == [NoCall EXCEPT !.ret = "raise", !.exc = e]
ReturnPair(n, s) == [NoCall EXCEPT !.ret = "pair", !.rnode = n, !.rstate = s]
ReturnState(s) == [NoCall EXCEPT !.ret = "state", !.rstate = s]
ReturnValue(v) == [NoCall EXCEPT !.ret = "value", !.rval = v]
ReturnFalse == [NoCall EXCEPT !.ret = "False"]
ReturnNone == NoCall

\* An outcome of a call that may write the heap.
Outcome(r, ns) == [res |-> r, ns |-> ns]

\* `board.is_ended` and `board.current_player` without a call are bound
\* method objects: always truthy, and never equal to an int.
BoundMethodTruthy == TRUE
IntEqualsBoundMethod(i) == FALSE

(***************************************************************************)
(* backpropagate(node, won), lines 82-93.                                  *)
(***************************************************************************)
won_delta(won) == IF won THEN 1 ELSE 0 - 1

next_won_unflipped(won) == won

\* `not won`, line 93
next_won(won) == ~won

RECURSIVE backpropagate_below_root(_, _, _)
backpropagate_below_root(ns, node, won) ==
  IF node # None /\ ns[node].parent # None
    THEN backpropagate_below_root([ns EXCEPT ![node].wins = @ + won_delta(won),
                                             ![node].visits = @ + 1],
                                  ns[node].parent, next_won(won))
    ELSE ns

RECURSIVE backpropagate(_, _, _)
backpropagate(ns, node, won) ==
  IF node # None
    THEN backpropagate([ns EXCEPT ![node].wins = @ + won_delta(won),
                                  ![node].visits = @ + 1],
                       ns[node].parent, next_won(won))
    ELSE ns

(***************************************************************************)
(* ucb(node, is_opponent), lines 95-123.  Scores are floats in Python; the *)
(* model keeps them in thousandths, with sqrt(log(v)) and sqrt(v) tabled   *)
(* for the visit counts a run can reach.                                   *)
(***************************************************************************)
SqrtLogMilli == <<0, 833, 1048, 1177, 1269, 1339, 1395, 1442, 1482, 1517>>
SqrtMilli == <<1000, 1414, 1732, 2000, 2236, 2449, 2646, 2828, 3000, 3162>>

MaxOf(S) == CHOOSE x \in S : \A y \in S : y <= x
MinOf(S) == CHOOSE x \in S : \A y \in S : x <= y

ChildrenOf(ns, node) == {ns[node].child_nodes[a] : a \in Keys(ns[node].child_nodes)}

\* w/v + c * sqrt(ln(t)) / sqrt(v), lines 108-117
win_ratio(ns, node, child) ==
  (ns[child].wins * 1000) \div ns[child].visits
  + (exploration_factor * SqrtLogMilli[ns[node].visits] * 1000)
      \div SqrtMilli[ns[child].visits]

ucb(ns, node, is_opponent) ==
  IF ns[node].visits = 0 THEN Raise("ValueError")          \* log(0), line 108
  ELSE IF \E c \in ChildrenOf(ns, node) : ns[c].visits = 0
    THEN Raise("ZeroDivisionError")                         \* line 111
  ELSE LET max_win_ratio ==
             MaxOf({0} \cup {win_ratio(ns, node, c) : c \in ChildrenOf(ns, node)})
       IN ReturnValue(IF is_opponent THEN max_win_ratio ELSE 1000 - max_win_ratio)

(***************************************************************************)
(* expand_leaf(node, board, state), lines 42-63.  choice() makes the       *)
(* result a set of outcomes.                                               *)
(***************************************************************************)
\* board.next_state(...) called with the positional arguments args
call_next_state(args) ==
  IF Len(args) # 2 THEN Raise("TypeError")
  ELSE ReturnState(next_state(args[1], args[2]))

\* lines 59-63, for the action drawn at line 58
expand_with(ns, node, action) ==
  LET r == call_next_state(<<action>>)                      \* line 59
  IN IF r.ret = "raise" THEN Outcome(r, ns)
     ELSE LET new_state == r.rstate
              id == Len(ns) + 1
              child == MCTSNode(node, action, legal_actions(new_state))
          IN Outcome(ReturnPair(id, new_state),
                     Append([ns EXCEPT ![node].child_nodes[action] = id], child))

expand_leaf(ns, node, state) ==
  IF is_ended(state) THEN {Outcome(ReturnFalse, ns)}        \* lines 55-56
  ELSE IF ns[node].untried_actions = <<>>
    THEN {Outcome(Raise("IndexError"), ns)}                 \* choice([]), line 58
  ELSE {expand_with(ns, node, action) : action \in SeqToSet(ns[node].untried_actions)}

(***************************************************************************)
(* traverse_nodes(node, board, state, bot_identity), lines 10-40.          *)
(***************************************************************************)
\* `not board.is_ended`, line 26
traverse_loop_test(state) == ~BoundMethodTruthy

\* `bot_identity == board.current_player`, lines 31 and 34
traverse_is_bot_turn(bot, state) == IntEqualsBoundMethod(bot)

\* The list comprehension of line 31 from index i on: a raise, or the list of
\* <<ucb, action>> pairs.
RECURSIVE traverse_ucbs(_, _, _, _, _)
traverse_ucbs(ns, node, bot, state, i) ==
  IF i > Len(ns[node].untried_actions) THEN [exc |-> "none", list |-> <<>>]
  ELSE LET action == ns[node].untried_actions[i]
       IN IF ~HasKey(ns[node].child_nodes, action)
            THEN [exc |-> "KeyError", list |-> <<>>]
          ELSE LET u == ucb(ns, ns[node].child_nodes[action],
                            traverse_is_bot_turn(bot, state))
               IN IF u.ret = "raise" THEN [exc |-> u.exc, list |-> <<>>]
                  ELSE LET rest == traverse_ucbs(ns, node, bot, state, i + 1)
                       IN IF rest.exc # "none" THEN rest
                          ELSE [exc |-> "none",
                                list |-> <<(<<u.rval, action>>)>> \o rest.list]

\* max(ucbs)[1] or min(ucbs)[1] of a non-empty list of <<ucb, action>> pairs
TupleLeq(x, y) == x[1] < y[1] \/ (x[1] = y[1] /\ x[2] <= y[2])
traverse_best_action(ucbs, maximize) ==
  LET S == SeqToSet(ucbs)
  IN IF maximize THEN (CHOOSE x \in S : \A y \in S : TupleLeq(y, x))[2]
     ELSE (CHOOSE x \in S : \A y \in S : TupleLeq(x, y))[2]

RECURSIVE traverse_nodes(_, _, _, _)
traverse_nodes(ns, node, state, bot) ==
  IF traverse_loop_test(state)
    THEN IF Keys(ns[node].child_nodes) = {}
           THEN expand_leaf(ns, node, state)                \* lines 27-28
         ELSE LET u == traverse_ucbs(ns, node, bot, state, 1)
              IN IF u.exc # "none" THEN {Outcome(Raise(u.exc), ns)}
                 ELSE IF u.list = <<>>
                   THEN {Outcome(Raise("ValueError"), ns)}  \* max([]) / min([])
                 ELSE LET best_action ==
                            traverse_best_action(u.list,
                                                 traverse_is_bot_turn(bot, state))
                      IN traverse_nodes(ns, ns[node].child_nodes[best_action],
                                        next_state(state, best_action), bot)
    ELSE {Outcome(ReturnPair(node, state), ns)}             \* line 40

(***************************************************************************)
(* rollout(board, state), lines 66-80.                                     *)
(***************************************************************************)
rollout_loop_test_always(state) == TRUE

\* `not board.is_ended`, line 77
rollout_loop_test(state) == ~BoundMethodTruthy

\* The states one pass of the loop body (line 78) can produce; empty when
\* choice() is given the empty list.
rollout_body(state) == {next_state(state, a) : a \in SeqToSet(legal_actions(state))}

\* Every result rollout can produce, as a call result.
RECURSIVE rollout(_)
rollout(state) ==
  IF rollout_loop_test(state)
    THEN IF rollout_body(state) = {} THEN {Raise("IndexError")}
         ELSE UNION {rollout(s) : s \in rollout_body(state)}
    ELSE {ReturnState(state)}

(***************************************************************************)
(* is_win(board, state, identity_of_bot), lines 146-150.                   *)
(***************************************************************************)
is_win(state, identity_of_bot) ==
  IF points_values_is_None(state) THEN Raise("AssertionError")
  ELSE ReturnValue(IF points_values(state, identity_of_bot) = 1 THEN 1 ELSE 0)

(***************************************************************************)
(* get_best_action(root_node), lines 125-144.                              *)
(***************************************************************************)
\* The loop of lines 137-142 from index i on.
RECURSIVE get_best_action_loop(_, _, _, _, _)
get_best_action_loop(ns, root_node, i, max_ucb, best_action) ==
  IF i > Len(ns[root_node].untried_actions)
    THEN (IF best_action = None THEN ReturnNone ELSE ReturnValue(best_action))
  ELSE LET action == ns[root_node].untried_actions[i]
       IN IF ~HasKey(ns[root_node].child_nodes, action) THEN Raise("KeyError")
          ELSE LET child_ucb == ucb(ns, ns[root_node].child_nodes[action], TRUE)
               IN IF child_ucb.ret = "raise" THEN child_ucb
                  ELSE IF child_ucb.rval > max_ucb
                    THEN get_best_action_loop(ns, root_node, i + 1,
                                              child_ucb.rval, action)
                  ELSE get_best_action_loop(ns, root_node, i + 1,
                                            max_ucb, best_action)

get_best_action(ns, root_node) == get_best_action_loop(ns, root_node, 1, 0, None)

(***************************************************************************)
(* think(board, current_state), lines 152-181.                             *)
(***************************************************************************)
\* traverse_nodes(...) called with the positional arguments args
call_traverse_nodes(ns, args) ==
  IF Len(args) # 4 THEN {Outcome(Raise("TypeError"), ns)}
  ELSE traverse_nodes(ns, args[1], args[3], args[4])

\* What one pass of the main loop did: the value line 171 assigned to node
\* (selected: "raise", "pair" or "False", "none" before any pass; for a pair
\* its node and state), the state line 172 gave to rollout (NoState when
\* rollout was not reached) and the argument line 174 gave to backpropagate
\* (backprop_arg: "none" when not reached, "node" with the node in
\* backprop_node, "pair" for a whole tuple, "False").
NoIteration == [selected |-> "none", sel_node |-> None, sel_state |-> NoState,
                rollout_state |-> NoState,
                backprop_arg |-> "none", backprop_node |-> None]

Selected(t) == [NoIteration EXCEPT !.selected = t.ret, !.sel_node = t.rnode,
                                   !.sel_state = t.rstate]

ThinkOutcome(r, ns, trace) == [res |-> r, ns |-> ns, trace |-> trace]

\* backpropagate(node, sim) of line 174, node being what line 171 assigned:
\* False is falsy, a (node, state) tuple has no attribute wins.
think_backpropagate(t, ns, trace) ==
  IF t.ret = "False"
    THEN ThinkOutcome(ReturnNone, ns, [trace EXCEPT !.backprop_arg = "False"])
    ELSE ThinkOutcome(Raise("AttributeError"), ns,
                      [trace EXCEPT !.backprop_arg = "pair"])

\* The state line 172 hands to rollout: the local variable state, which
\* line 166 set to current_state and line 171 did not assign.
think_rollout_state(t, cs) == cs

\* lines 172-174 after line 171 produced outcome t
think_simulate(t, cs, bot) ==
  LET trace == [Selected(t.res) EXCEPT !.rollout_state = think_rollout_state(t, cs)]
  IN {IF r.ret = "raise" THEN ThinkOutcome(r, t.ns, trace)
      ELSE IF is_win(r.rstate, bot).ret = "raise"
        THEN ThinkOutcome(is_win(r.rstate, bot), t.ns, trace)
      ELSE think_backpropagate(t.res, t.ns, trace)
      : r \in rollout(think_rollout_state(t, cs))}

\* One pass of the loop body, lines 166-174.
think_iteration(ns, cs, bot) ==
  UNION {IF t.res.ret = "raise"
           THEN {ThinkOutcome(t.res, t.ns, Selected(t.res))}
           ELSE think_simulate(t, cs, bot)
         : t \in call_traverse_nodes(ns, <<Root>>)}         \* line 171

(***************************************************************************)
(* The caller of a unit run.                                               *)
(***************************************************************************)
\* The caller attaches a child for an untried action of a node, keeping the
\* node's bookkeeping as MCTSNode's data model states it.
Grow(n, a) ==
  /\ mode = "unit" /\ rpc = "idle"
  /\ Len(nodes) < MaxNodes
  /\ a \in SeqToSet(nodes[n].untried_actions)
  /\ ~is_ended(StateOf(nodes, n))
  /\ LET id == Len(nodes) + 1
         child == MCTSNode(n, a, legal_actions(next_state(StateOf(nodes, n), a)))
     IN nodes' = Append([nodes EXCEPT ![n].child_nodes[a] = id,
                                      ![n].untried_actions = Remove(@, a)],
                        child)
  /\ call' = [NoCall EXCEPT !.fn = "MCTSNode", !.node = n, !.rnode = Len(nodes) + 1]
  /\ UNCHANGED <<mode, current_state, numNodes, backprops, rpc, rstate,
                 thinkPc, thinkIter, bot_identity, iteration>>

Called(fn, n, state, flag, r) ==
  [r EXCEPT !.fn = fn, !.node = n, !.state = state, !.flag = flag]

UnitIdle == mode = "unit" /\ rpc = "idle"

CallBackpropagate(n, won) ==
  /\ UnitIdle
  /\ backprops < MaxBackprops
  /\ nodes' = backpropagate(nodes, n, won)
  /\ backprops' = backprops + 1
  /\ call' = Called("backpropagate", n, NoState, won, ReturnNone)
  /\ UNCHANGED <<mode, current_state, numNodes, rpc, rstate,
                 thinkPc, thinkIter, bot_identity, iteration>>

CallExpandLeaf(n) ==
  /\ UnitIdle
  /\ \E o \in expand_leaf(nodes, n, StateOf(nodes, n)) :
       /\ nodes' = o.ns
       /\ call' = Called("expand_leaf", n, StateOf(nodes, n), FALSE, o.res)
  /\ UNCHANGED <<mode, current_state, numNodes, backprops, rpc, rstate,
                 thinkPc, thinkIter, bot_identity, iteration>>

CallTraverseNodes(n, bot) ==
  /\ UnitIdle
  /\ \E o \in traverse_nodes(nodes, n, StateOf(nodes, n), bot) :
       /\ nodes' = o.ns
       /\ call' = Called("traverse_nodes", n, StateOf(nodes, n),
                         bot = current_player(StateOf(nodes, n)), o.res)
  /\ UNCHANGED <<mode, current_state, numNodes, backprops, rpc, rstate,
                 thinkPc, thinkIter, bot_identity, iteration>>

CallUcb(n, is_opponent) ==
  /\ UnitIdle
  /\ call' = Called("ucb", n, NoState, is_opponent, ucb(nodes, n, is_opponent))
  /\ UNCHANGED <<mode, current_state, numNodes, nodes, backprops, rpc, rstate,
                 thinkPc, thinkIter, bot_identity, iteration>>

CallGetBestAction ==
  /\ UnitIdle
  /\ call' = Called("get_best_action", Root, NoState, FALSE,
                    get_best_action(nodes, Root))
  /\ UNCHANGED <<mode, current_state, numNodes, nodes, backprops, rpc, rstate,
                 thinkPc, thinkIter, bot_identity, iteration>>

\* is_win on the state a rollout just returned, as think does at line 173
CallIsWin(identity) ==
  /\ UnitIdle
  /\ call.fn = "rollout" /\ call.ret = "state"
  /\ call' = Called("is_win", None, call.rstate, FALSE,
                    is_win(call.rstate, identity))
  /\ UNCHANGED <<mode, current_state, numNodes, nodes, backprops, rpc, rstate,
                 thinkPc, thinkIter, bot_identity, iteration>>

\* rollout(board, state) is entered: state is the local variable rstate
CallRollout(n) ==
  /\ UnitIdle
  /\ rpc' = "loop"
  /\ rstate' = StateOf(nodes, n)
  /\ call' = Called("rollout", n, StateOf(nodes, n), FALSE,
                    [NoCall EXCEPT !.ret = "pending"])
  /\ UNCHANGED <<mode, current_state, numNodes, nodes, backprops,
                 thinkPc, thinkIter, bot_identity, iteration>>

\* One evaluation of the while test of line 77, then the body or the return.
RolloutStep ==
  /\ rpc = "loop"
  /\ IF rollout_loop_test(rstate)
       THEN IF rollout_body(rstate) = {}
              THEN /\ rpc' = "idle"
                   /\ rstate' = NoState
                   /\ call' = [call EXCEPT !.ret = "raise", !.exc = "IndexError"]
              ELSE /\ rstate' \in rollout_body(rstate)
                   /\ UNCHANGED <<rpc, call>>
       ELSE /\ rpc' = "idle"
            /\ rstate' = NoState
            /\ call' = [call EXCEPT !.ret = "state", !.rstate = rstate]
  /\ UNCHANGED <<mode, current_state, numNodes, nodes, backprops,
                 thinkPc, thinkIter, bot_identity, iteration>>

(***************************************************************************)
(* A think run.                                                            *)
(***************************************************************************)
\* lines 162-163
ThinkStart ==
  /\ mode = "think" /\ thinkPc = "idle"
  /\ bot_identity' = current_player(current_state)
  /\ nodes' = <<MCTSNode(None, None, legal_actions(current_state))>>
  /\ thinkPc' = "loop"
  /\ call' = Called("think", None, current_state, FALSE,
                    [NoCall EXCEPT !.ret = "pending"])
  /\ UNCHANGED <<mode, current_state, numNodes, backprops, rpc, rstate, thinkIter,
                 iteration>>

\* lines 165-174: one iteration of the main loop
ThinkIterate ==
  /\ mode = "think" /\ thinkPc = "loop"
  /\ thinkIter < numNodes
  /\ \E o \in think_iteration(nodes, current_state, bot_identity) :
       /\ nodes' = o.ns
       /\ iteration' = o.trace
       /\ IF o.res.ret = "raise"
            THEN /\ thinkPc' = "raised"
                 /\ call' = [call EXCEPT !.ret = "raise", !.exc = o.res.exc]
                 /\ UNCHANGED thinkIter
            ELSE /\ thinkIter' = thinkIter + 1
                 /\ UNCHANGED <<thinkPc, call>>
  /\ UNCHANGED <<mode, current_state, numNodes, backprops, rpc, rstate, bot_identity>>

\* lines 178-181
ThinkFinish ==
  /\ mode = "think" /\ thinkPc = "loop"
  /\ thinkIter = numNodes
  /\ LET r == get_best_action(nodes, Root)
     IN IF r.ret = "raise"
          THEN /\ thinkPc' = "raised"
               /\ call' = [call EXCEPT !.ret = "raise", !.exc = r.exc]
          ELSE /\ thinkPc' = "returned"
               /\ call' = [call EXCEPT !.ret = r.ret, !.rval = r.rval]
  /\ UNCHANGED <<mode, current_state, numNodes, nodes, backprops, rpc, rstate,
                 thinkIter, bot_identity, iteration>>

Init ==
  /\ mode \in {"unit", "think"}
  /\ current_state \in States
  /\ numNodes \in (IF mode = "think" THEN (0..MaxNumNodes) \cup {num_nodes}
                   ELSE {num_nodes})
  /\ nodes = IF mode = "unit"
               THEN <<MCTSNode(None, None, legal_actions(current_state))>>
               ELSE <<>>
  /\ call = NoCall
  /\ backprops = 0
  /\ rpc = "idle" /\ rstate = NoState
  /\ thinkPc = "idle" /\ thinkIter = 0 /\ bot_identity = 0
  /\ iteration = NoIteration

Next ==
  \/ \E n \in 1..Len(nodes), a \in Actions : Grow(n, a)
  \/ \E n \in 1..Len(nodes), won \in BOOLEAN : CallBackpropagate(n, won)
  \/ \E n \in 1..Len(nodes) : CallExpandLeaf(n)
  \/ \E n \in 1..Len(nodes), bot \in Players : CallTraverseNodes(n, bot)
  \/ \E n \in 1..Len(nodes), is_opponent \in BOOLEAN : CallUcb(n, is_opponent)
  \/ CallGetBestAction
  \/ \E n \in 1..Len(nodes) : CallRollout(n)
  \/ RolloutStep
  \/ \E identity \in Players : CallIsWin(identity)
  \/ ThinkStart
  \/ ThinkIterate
  \/ ThinkFinish

Spec == Init /\ [][Next]_vars

\* rollout runs to its end once called: the interpreter is sequential and
\* nothing else runs while rpc = "loop".
FairSpec == Spec /\ WF_vars(RolloutStep)
(***************************************************************************)
(* Claims.                                                                 *)
(***************************************************************************)
ThinkStopped == thinkPc \in {"returned", "raised"}

\* C1: in a think run the root's visit count equals the number of completed
\* iterations, and think completes every iteration from 0 to num_nodes: when
\* think has stopped, num_nodes iterations were completed and counted.
C1_VisitConservation ==
  (mode = "think" /\ thinkPc # "idle") =>
     /\ nodes[Root].visits = thinkIter
     /\ ThinkStopped => thinkIter = numNodes

\* Every action legal at the node's state is in exactly one of child_nodes'
\* keys and untried_actions.
Accounted(ns, n) ==
  /\ Keys(ns[n].child_nodes) \cap SeqToSet(ns[n].untried_actions) = {}
  /\ Keys(ns[n].child_nodes) \cup SeqToSet(ns[n].untried_actions)
       = SeqToSet(legal_actions(StateOf(ns, n)))
  /\ Cardinality(Keys(ns[n].child_nodes)) + Len(ns[n].untried_actions)
       = Len(legal_actions(StateOf(ns, n)))

\* C2: node accounting holds for every node, and an expand_leaf call on a
\* non-terminal state with an untried action returns a child registered under
\* the chosen action, which is no longer untried.
C2_NodeAccounting ==
  /\ \A n \in 1..Len(nodes) : Accounted(nodes, n)
  /\ (call.fn = "expand_leaf" /\ ~is_ended(call.state) /\ call.exc # "IndexError")
       => /\ call.ret = "pair"
          /\ LET a == nodes[call.rnode].parent_action
             IN /\ nodes[call.node].child_nodes[a] = call.rnode
                /\ a \notin SeqToSet(nodes[call.node].untried_actions)

\* C3: in one backpropagate call, for every parent-child pair on the path from
\* the starting node to the root, the wins of the two change by opposite
\* amounts of size 1.
C3_WinLossAlternation ==
  [][call'.fn = "backpropagate" =>
       \A c \in PathToRoot(nodes, call'.node) :
          nodes[c].parent # None =>
            LET p == nodes[c].parent
                dc == nodes'[c].wins - nodes[c].wins
                dp == nodes'[p].wins - nodes[p].wins
            IN dc \in {1, 0 - 1} /\ dp = 0 - dc]_vars

\* C3 witness: a backpropagate call from a node two levels below the root
C3_Witness ==
  /\ call.fn = "backpropagate"
  /\ Depth(nodes, call.node) >= 2
  /\ nodes[call.node].wins # nodes[nodes[call.node].parent].wins

\* C4: the state rollout returns is terminal, so is_win on it never fails its
\* assertion.
C4_RolloutReturnsTerminal ==
  /\ (call.fn = "rollout" /\ call.ret = "state") => is_ended(call.rstate)
  /\ call.fn = "is_win" => call.exc # "AssertionError"

SingleMoveWin(state) ==
  /\ Len(legal_actions(state)) = 1
  /\ is_ended(next_state(state, legal_actions(state)[1]))
  /\ points_values(next_state(state, legal_actions(state)[1]),
                   current_player(state)) = 1

\* C5: on a start state with a single legal action that wins at once, think
\* with num_nodes >= 1 does not raise and returns that action.
C5_SingleMove ==
  (mode = "think" /\ SingleMoveWin(current_state) /\ numNodes >= 1) =>
     /\ thinkPc # "raised"
     /\ thinkPc = "returned" =>
          (call.ret = "value" /\ call.rval = legal_actions(current_state)[1])

\* C6: a rollout that was called returns a state after finitely many steps.
C6_RolloutTerminates ==
  (rpc = "loop") ~> (rpc = "idle" /\ call.fn = "rollout" /\ call.ret = "state")

\* C6 witness: a rollout called on a non-terminal state has returned
C6_Witness ==
  /\ rpc = "idle" /\ call.fn = "rollout" /\ call.ret = "state"
  /\ ~is_ended(call.state)

\* The score of a child as get_best_action and traverse_nodes compute it.
Score(c, is_opponent) == ucb(nodes, c, is_opponent)

\* C7: get_best_action on a root with at least one expanded child returns a
\* key of child_nodes, legal at current_state, whose child has the highest
\* bot-perspective UCB score among the root's children.
C7_BestAction ==
  (call.fn = "get_best_action" /\ Keys(nodes[Root].child_nodes) # {}) =>
     /\ call.ret = "value"
     /\ HasKey(nodes[Root].child_nodes, call.rval)
     /\ call.rval \in SeqToSet(legal_actions(current_state))
     /\ \A c \in ChildrenOf(nodes, Root) :
          /\ Score(c, TRUE).ret = "value"
          /\ Score(c, TRUE).rval
               <= Score(nodes[Root].child_nodes[call.rval], TRUE).rval

\* C8: one backpropagate call adds exactly 1 to the visits of the node and of
\* each of its ancestors up to the root, and leaves the wins and visits of
\* every other node, and every node's child_nodes and untried_actions, as
\* they were.
C8_BackpropagateFootprint ==
  [][call'.fn = "backpropagate" =>
       /\ Len(nodes') = Len(nodes)
       /\ \A n \in 1..Len(nodes) :
            /\ nodes'[n].child_nodes = nodes[n].child_nodes
            /\ nodes'[n].untried_actions = nodes[n].untried_actions
            /\ nodes'[n].parent = nodes[n].parent
            /\ IF n \in PathToRoot(nodes, call'.node)
                 THEN nodes'[n].visits = nodes[n].visits + 1
                 ELSE /\ nodes'[n].visits = nodes[n].visits
                      /\ nodes'[n].wins = nodes[n].wins]_vars

\* C8 witness: a backpropagate call from below the root, with a node off the
\* path
C8_Witness ==
  /\ call.fn = "backpropagate"
  /\ Depth(nodes, call.node) >= 1
  /\ \E n \in 1..Len(nodes) : n \notin PathToRoot(nodes, call.node)
  /\ nodes[Root].visits >= 2

\* C9: a traverse_nodes call at a node with children and a state that is not
\* ended descends into the child whose action maximizes the UCB score when
\* the bot is to move (call.flag) and minimizes it when the opponent is.
C9_SelectionDirection ==
  (/\ call.fn = "traverse_nodes"
   /\ Keys(nodes[call.node].child_nodes) # {}
   /\ ~is_ended(call.state)) =>
     /\ call.ret = "pair"
     /\ \E c \in ChildrenOf(nodes, call.node) :
          /\ c \in PathToRoot(nodes, call.rnode)
          /\ \A d \in ChildrenOf(nodes, call.node) :
               (Score(c, call.flag).ret = "value" /\ Score(d, call.flag).ret = "value")
                 => IF call.flag
                      THEN Score(d, call.flag).rval <= Score(c, call.flag).rval
                      ELSE Score(c, call.flag).rval <= Score(d, call.flag).rval

\* C10: traverse_nodes called at the root returns a (node, state) pair whose
\* state is terminal or whose node was created by expand_leaf in this call.
C10_SelectionResult ==
  [][(call'.fn = "traverse_nodes" /\ call'.node = Root) =>
       /\ call'.ret = "pair"
       /\ is_ended(call'.rstate) \/ call'.rnode > Len(nodes)]_vars

\* C11: in every pass of think's main loop the state given to rollout is the
\* state associated with the node that selection and expansion produced, and
\* the node given to backpropagate is that node.
C11_RolloutFromSelected ==
  (mode = "think" /\ iteration.selected # "none") =>
     /\ iteration.selected = "pair"
     /\ iteration.sel_state = StateOf(nodes, iteration.sel_node)
     /\ iteration.rollout_state = iteration.sel_state
     /\ iteration.backprop_arg = "node"
     /\ iteration.backprop_node = iteration.sel_node

\* C12, the part about expand_leaf alone: called with an ended state it
\* returns False and leaves the heap as it was.
C12_ExpandTerminalNoop ==
  [][(call'.fn = "expand_leaf" /\ is_ended(call'.state)) =>
       (call'.ret = "False" /\ nodes' = nodes)]_vars

\* C12: expand_leaf called with an ended state returns False, creates no node
\* and leaves child_nodes and untried_actions unchanged; and a pass of think's
\* main loop whose selection ends at a terminal node (here the root, when
\* current_state is ended) gives that node's state to rollout and that node
\* to backpropagate.
C12_ExpandTerminal ==
  [][/\ (call'.fn = "expand_leaf" /\ is_ended(call'.state)) =>
          (call'.ret = "False" /\ nodes' = nodes)
     /\ (mode = "think" /\ iteration'.selected # "none" /\ is_ended(current_state)) =>
          /\ iteration'.rollout_state = current_state
          /\ iteration'.backprop_arg = "node"
          /\ iteration'.backprop_node = Root]_vars

\* C13: every evaluation of ucb returns a score: it raises neither on a node
\* with zero visits nor on a child with zero visits, in a call of its own or
\* inside think.
C13_UcbTotal ==
  /\ call.fn = "ucb" => call.ret = "value"
  /\ mode = "think" => call.exc \notin {"ValueError", "ZeroDivisionError"}

====
